---- MODULE Spec2Model ----
(***************************************************************************)
(* A model of video-convert-tools: the replace-in-place workflow           *)
(* (convert_and_replace.main), the sort workflow (convert_and_sort.main)   *)
(* and the helpers they share (basics.py).                                 *)
(*                                                                         *)
(* Paths are strings, as in the program; the filesystem is a function from *)
(* a finite universe of paths to file contents.  Durations are counted in  *)
(* tenths of a second and the duration tolerance in percent, so that the   *)
(* program's float comparisons become exact integer comparisons.           *)
(***************************************************************************)
EXTENDS Integers, Sequences, FiniteSets, TLC

VARIABLES
    fs,            \* the filesystem: path -> content of the file, or Absent
    dirs,          \* directories created under the target folder (mkdir)
    cache,         \* functools.cache of get_video_info: path -> result
    pc,            \* where the running main() is
    video_files,   \* find_video_files(source_folder), a sorted list
    i,             \* position of the scanning loop in video_files
    convertable,   \* replace: convertable_files; sort: keys of convert_map
    outputs,       \* sort: values of convert_map, paired with convertable
    j,             \* position of the converting loop
    opts,          \* the command line options of the run
    run,           \* number of the batch run (a re-run starts a new process)
    engineLog,     \* history: the <<run, input, output>> of the engine invocations
    out,           \* history: path -> complete output the engine wrote for it
    used,          \* history: path -> output metadata its verification used
    verdict,       \* history: path -> how the verification of the file ended
    fs0,           \* history: the filesystem when the current run started
    finished,      \* history: <<run, input>> of engine runs that ended with status 0
    unfinished,    \* history: <<run, input>> of engine runs that failed or were interrupted
    inp,           \* history: path -> content the engine last read from it
    call,          \* a helper called on its own: its name and arguments
    ret            \* the value that call returned

vars == <<fs, dirs, cache, pc, video_files, i, convertable, outputs, j, opts,
          run, engineLog, out, used, verdict, fs0, finished, unfinished, inp,
          call, ret>>

-----------------------------------------------------------------------------
(* Strings.                                                                *)

\* the characters of file names, in ASCII order
Alphabet == "-./0123456789ABCDEFGHIJKLMNOPQRSTUVWXYZ_abcdefghijklmnopqrstuvwxyz"

Ch(s, k) == IF k >= 1 /\ k <= Len(s) THEN SubSeq(s, k, k) ELSE ""

Ord(c) == CHOOSE k \in 1..Len(Alphabet) : Ch(Alphabet, k) = c

\* str < str, as Python compares strings
RECURSIVE StrLessFrom(_, _, _)
StrLessFrom(a, b, k) ==
    IF k > Len(b) THEN FALSE
    ELSE IF k > Len(a) THEN TRUE
    ELSE IF Ch(a, k) = Ch(b, k) THEN StrLessFrom(a, b, k + 1)
    ELSE Ord(Ch(a, k)) < Ord(Ch(b, k))

StrLess(a, b) == StrLessFrom(a, b, 1)

\* s.rfind(c) + 1: the last position of character c in s, 0 when there is none
LastIndexOf(s, c) ==
    LET S == {k \in 1..Len(s) : Ch(s, k) = c}
    IN  IF S = {} THEN 0 ELSE CHOOSE k \in S : \A m \in S : m <= k

\* s.find(c) + 1: the first position of character c in s, 0 when there is none
FirstIndexOf(s, c) ==
    LET S == {k \in 1..Len(s) : Ch(s, k) = c}
    IN  IF S = {} THEN 0 ELSE CHOOSE k \in S : \A m \in S : k <= m

\* the elements of a list
Range(seq) == {seq[k] : k \in 1..Len(seq)}

-----------------------------------------------------------------------------
(* pathlib.PurePosixPath.                                                  *)

Name(p) == SubSeq(p, LastIndexOf(p, "/") + 1, Len(p))

Parent(p) ==
    IF LastIndexOf(p, "/") = 0 THEN "." ELSE SubSeq(p, 1, LastIndexOf(p, "/") - 1)

Suffix(p) ==
    LET n == Name(p)
        k == LastIndexOf(n, ".")
    IN  IF k > 1 /\ k < Len(n) THEN SubSeq(n, k, Len(n)) ELSE ""

Stem(p) ==
    LET n == Name(p)
        k == LastIndexOf(n, ".")
    IN  IF k > 1 /\ k < Len(n) THEN SubSeq(n, 1, k - 1) ELSE n

Join(d, n) == IF d = "." THEN n ELSE d \o "/" \o n

WithName(p, n) == Join(Parent(p), n)

WithSuffix(p, suffix) == WithName(p, Stem(p) \o suffix)

WithStem(p, stem) == WithName(p, stem \o Suffix(p))

\* the parts of a path, the tuple pathlib compares paths by
RECURSIVE Parts(_)
Parts(p) ==
    LET k == FirstIndexOf(p, "/")
    IN  IF k = 0 THEN <<p>>
        ELSE <<SubSeq(p, 1, k - 1)>> \o Parts(SubSeq(p, k + 1, Len(p)))

RECURSIVE PartsLess(_, _)
PartsLess(a, b) ==
    IF b = <<>> THEN FALSE
    ELSE IF a = <<>> THEN TRUE
    ELSE IF Head(a) = Head(b) THEN PartsLess(Tail(a), Tail(b))
    ELSE StrLess(Head(a), Head(b))

PathLess(p, q) == PartsLess(Parts(p), Parts(q))

\* sorted(S) for a set of paths
RECURSIVE Sorted(_)
Sorted(S) ==
    IF S = {} THEN <<>>
    ELSE LET m == CHOOSE p \in S : \A q \in S \ {p} : PathLess(p, q)
         IN  <<m>> \o Sorted(S \ {m})

\* is path p below folder root
IsUnder(p, root) ==
    Len(p) > Len(root) + 1 /\ SubSeq(p, 1, Len(root) + 1) = root \o "/"

\* p.relative_to(root)
RelativeTo(p, root) == SubSeq(p, Len(root) + 2, Len(p))

-----------------------------------------------------------------------------
(* Files and what the probing tool reports about them.                     *)

SUFFIXES == {".mkv", ".mp4", ".avi", ".mpg", ".mpeg", ".m4v", ".mov", ".wmv", ".flv"}

ACCEPTABLE_CODECS_DEFAULT == {"hevc"}

\* 5.0 seconds, in tenths of a second
MIN_DURATION_DIFFERENCE == 50

\* the encoders the engine knows (dir(ffmpeg.codecs.encoders)), as far as used
Encoders == {"hevc_nvenc", "libx265"}

\* the most files the source folder of the replace-in-place workflow holds
MaxFiles == 3

\* the most files the source folder of the sort workflow holds
MaxSortFiles == 2

\* the most batch runs of the sort workflow (the first run and its re-runs)
MaxRuns == 2

\* duration of every source file, in tenths of a second
SrcDur == 1000

\* the durations an engine output can have: that of the source, or 20 s less
\* (a truncated output)
OutDurs == {SrcDur, SrcDur - 200}

Absent == [id |-> "", gen |-> 0, codec |-> "", dur |-> 0, q |-> "absent"]

\* an original file of the source folder: q = "ok" when the probing tool can
\* read it, "bad" when it cannot (corrupt container, unsupported format)
Original(p, codec) ==
    IF codec = "bad"
    THEN [id |-> p, gen |-> 0, codec |-> "", dur |-> 0, q |-> "bad"]
    ELSE [id |-> p, gen |-> 0, codec |-> codec, dur |-> SrcDur, q |-> "ok"]

\* a file that is no video (the probing tool fails on it)
OtherFile(p) == [id |-> p, gen |-> 0, codec |-> "", dur |-> 0, q |-> "bad"]

\* the complete file the engine writes for input content c: the target codec
\* is HEVC whichever encoder is used; d and q are what the run made of it
EngineOutput(c, d, q) ==
    IF q = "ok"
    THEN [id |-> c.id, gen |-> c.gen + 1, codec |-> "hevc", dur |-> d, q |-> "ok"]
    ELSE [id |-> c.id, gen |-> c.gen + 1, codec |-> "", dur |-> 0, q |-> "bad"]

\* what an engine run that did not finish leaves at its output path
PartialOutput(c) ==
    [id |-> c.id, gen |-> c.gen + 1, codec |-> "", dur |-> 0, q |-> "partial"]

None == [k |-> "none", codec |-> "", dur |-> 0]

NotCached == [k |-> "miss", codec |-> "", dur |-> 0]

VideoInfo(codec, duration) == [k |-> "info", codec |-> codec, dur |-> duration]

\* the body of get_video_info: ffmpeg.probe raises FFMpegExecuteError on a
\* missing or unreadable file, which is caught and turned into None
ProbeFile(c) == IF c.q = "ok" THEN VideoInfo(c.codec, c.dur) ELSE None

\* get_video_info(path) under @cache: the cached result when there is one
GetVideoInfo(path) ==
    IF cache[path] # NotCached THEN cache[path] ELSE ProbeFile(fs[path])

\* the cache after get_video_info(path): None results are cached as well
CacheAfter(path) == [cache EXCEPT ![path] = GetVideoInfo(path)]

\* folder d and the folders above it: what mkdir(parents=True, exist_ok=True)
\* creates, and the folders a file at d/name lies in
RECURSIVE Ancestors(_)
Ancestors(d) == IF d = "." THEN {} ELSE {d} \cup Ancestors(Parent(d))

\* the entries of the directory tree: the files and the folders they lie in
\* (rglob("*") yields both)
Entries(files) ==
    LET present == {p \in DOMAIN files : files[p] # Absent}
    IN  present \cup UNION {Ancestors(Parent(p)) : p \in present}

\* find_video_files without the sort: the entries as the directory walk
\* happens to give them, here in descending order
RECURSIVE Unsorted(_)
Unsorted(S) ==
    IF S = {} THEN <<>>
    ELSE LET m == CHOOSE p \in S : \A q \in S \ {p} : PathLess(q, p)
         IN  <<m>> \o Unsorted(S \ {m})

FindVideoFilesUnsorted(files, root, suffixes) ==
    Unsorted({p \in Entries(files) : IsUnder(p, root) /\ Suffix(p) \in suffixes})

\* find_video_files(root_folder, suffixes), the suffixes being those of
\* "suffixes or SUFFIXES"
FindVideoFiles(files, root, suffixes) ==
    Sorted({p \in Entries(files) : IsUnder(p, root) /\ Suffix(p) \in suffixes})

Abs(x) == IF x < 0 THEN -x ELSE x

\* the check with "or" for "and": one exceeded threshold rejects
DurationMismatchEither(target, source, tolerance) ==
    LET duration_difference == Abs(target - source)
    IN  \/ duration_difference * 100 > tolerance * source
        \/ duration_difference > MIN_DURATION_DIFFERENCE

\* the duration check of convert_and_replace.main: TRUE when the conversion is
\* rejected; tolerance in percent, durations in tenths of a second
DurationMismatch(target, source, tolerance) ==
    LET duration_difference == Abs(target - source)
    IN  /\ duration_difference * 100 > tolerance * source
        /\ duration_difference > MIN_DURATION_DIFFERENCE

\* convert_video that runs the engine in a dry run as well
ConvertVideoAlwaysRuns(video_codec, dry_run) ==
    IF video_codec \notin Encoders THEN "error" ELSE "run"

\* convert_video without the test of the encoder
ConvertVideoUnchecked(video_codec, dry_run) ==
    IF dry_run THEN "logged" ELSE "run"

\* convert_video after the command is built: "error" when the configured
\* encoder is unknown (ValueError), "logged" in a dry run, else "run"
ConvertVideo(video_codec, dry_run) ==
    IF video_codec \notin Encoders THEN "error"
    ELSE IF dry_run THEN "logged"
    ELSE "run"

-----------------------------------------------------------------------------
(* get_video_info on the output of ffprobe, the FFMPEGConfig the two       *)
(* main() build, and the streams convert_video selects.                    *)

\* a stream of the ffprobe output; has_tags says whether the key "tags" is
\* there, tags are its <<key, value>> pairs
Stream(codec_type, codec_name, width, height, has_tags, tags) ==
    [codec_type |-> codec_type, codec_name |-> codec_name, width |-> width,
     height |-> height, has_tags |-> has_tags, tags |-> tags]

\* get_language that takes the value of any tag for the language
get_language_any_tag(stream) ==
    IF stream.has_tags /\ stream.tags # {}
    THEN (CHOOSE t \in stream.tags : TRUE)[2]
    ELSE "unk"

get_language(stream) ==
    IF stream.has_tags /\ \E t \in stream.tags : t[1] = "language"
    THEN (CHOOSE t \in stream.tags : t[1] = "language")[2]
    ELSE "unk"

\* video_streams[0]
FirstVideoStream(video_streams) == video_streams[1]

\* the body of get_video_info for the outcome of ffmpeg.probe: file_info.ok is
\* FALSE when the probe raised FFMpegExecuteError
VideoInfoOf(file_info) ==
    LET IsVideo(stream) == stream.codec_type = "video"
        IsAudio(stream) == stream.codec_type = "audio"
        IsSubtitle(stream) == stream.codec_type = "subtitle"
        video_streams == SelectSeq(file_info.streams, IsVideo)
        audio_streams == SelectSeq(file_info.streams, IsAudio)
        subtitle_streams == SelectSeq(file_info.streams, IsSubtitle)
    IN  IF ~file_info.ok THEN None
        ELSE IF video_streams = <<>> THEN None
        ELSE [k |-> "info",
              width |-> FirstVideoStream(video_streams).width,
              height |-> FirstVideoStream(video_streams).height,
              codec |-> FirstVideoStream(video_streams).codec_name,
              audio_languages |->
                  [n \in 1..Len(audio_streams) |-> get_language(audio_streams[n])],
              subtitle_languages |->
                  [n \in 1..Len(subtitle_streams) |->
                      get_language(subtitle_streams[n])],
              dur |-> file_info.duration]

\* an option that is a list of languages: not given (None) or a list
NotGiven == [set |-> FALSE, list |-> <<>>]

Given(list) == [set |-> TRUE, list |-> list]

\* the truth value Python gives a list option: None and [] are false
Truthy(languages) == languages.set /\ languages.list # <<>>

\* the option maximum_width: None or an int
NoWidth == [set |-> FALSE, w |-> 0]

Width(w) == [set |-> TRUE, w |-> w]

\* the language and width fields of the FFMPEGConfig that main() builds:
\* convert_and_replace.main lines 91-103, convert_and_sort.main lines 69-82
FFMPEGConfigOf(workflow, options) ==
    [audio_languages |-> options.audio_languages,
     subtitle_languages |->
         IF workflow = "replace" /\ options.subtitle_like_audio
         THEN options.audio_languages
         ELSE options.subtitle_languages,
     maximum_width |-> options.maximum_width]

\* a stream handed to ffmpeg.output: the stream of that kind at position
\* index, or all streams of the kind (input_stream.audio, .subtitle); the
\* video stream goes through scale(w, h=-2) when scaled
MuxStream(kind, all, index) ==
    [kind |-> kind, all |-> all, index |-> index, scaled |-> FALSE, w |-> 0]

\* the selection that counts the streams from 1
SelectStreamsFromOne(kind, probed, languages) ==
    IF Truthy(languages)
    THEN LET positions == [n \in 1..Len(probed) |-> n]
             Wanted(index) == probed[index] \in Range(languages.list)
             selected == SelectSeq(positions, Wanted)
         IN  [n \in 1..Len(selected) |-> MuxStream(kind, FALSE, selected[n])]
    ELSE IF Len(probed) > 0 THEN <<MuxStream(kind, TRUE, 0)>>
    ELSE <<>>

\* lines 188-197 and 200-208: the streams of one kind that are selected
SelectStreams(kind, probed, languages) ==
    IF Truthy(languages)
    THEN LET positions == [n \in 1..Len(probed) |-> n - 1]
             Wanted(index) == probed[index + 1] \in Range(languages.list)
             selected == SelectSeq(positions, Wanted)
         IN  [n \in 1..Len(selected) |-> MuxStream(kind, FALSE, selected[n])]
    ELSE IF Len(probed) > 0 THEN <<MuxStream(kind, TRUE, 0)>>
    ELSE <<>>

\* line 180: ffmpeg_config.maximum_width and video_info.width > maximum_width
Rescales(maximum_width, width) ==
    maximum_width.set /\ maximum_width.w # 0 /\ width > maximum_width.w

\* mux_streams of convert_video (lines 176-208)
MuxStreams(video_info, ffmpeg_config) ==
    LET rescale == Rescales(ffmpeg_config.maximum_width, video_info.width)
        video_stream ==
            [kind |-> "video", all |-> FALSE, index |-> 0, scaled |-> rescale,
             w |-> IF rescale THEN ffmpeg_config.maximum_width.w ELSE 0]
    IN  <<video_stream>>
        \o SelectStreams("audio", video_info.audio_languages,
                          ffmpeg_config.audio_languages)
        \o SelectStreams("subtitle", video_info.subtitle_languages,
                          ffmpeg_config.subtitle_languages)

-----------------------------------------------------------------------------
(* find_season_info and the output path of convert_and_sort.main.          *)

Digits == {"0", "1", "2", "3", "4", "5", "6", "7", "8", "9"}

DigitValue(c) == (CHOOSE k \in 1..10 : Ch("0123456789", k) = c) - 1

\* int(s) for a string of one or two digits
IntOf(s) ==
    IF Len(s) = 1 THEN DigitValue(s)
    ELSE 10 * DigitValue(Ch(s, 1)) + DigitValue(Ch(s, 2))

\* f"S{n:02d}"
SeasonFolder(n) ==
    "S" \o Ch("0123456789", (n \div 10) + 1) \o Ch("0123456789", (n % 10) + 1)

\* the pattern ([Ss])?(\d{1,2}).?[EeXx](\d{1,2}) tried at position k of s with
\* nd digits in group 2 and any characters taken by ".?" (0 or 1)
MatchesWith(s, k, nd, any) ==
    LET p == IF Ch(s, k) \in {"S", "s"} THEN k + 1 ELSE k
        q == p + nd + any
    IN  /\ \A m \in p..(p + nd - 1) : Ch(s, m) \in Digits
        /\ any = 1 => p + nd <= Len(s)
        /\ Ch(s, q) \in {"E", "e", "X", "x"}
        /\ Ch(s, q + 1) \in Digits

\* group(2) of the match at position k, "" when the pattern does not match
\* there: the quantifiers are greedy, so two digits are tried before one and
\* a character for ".?" before none
MatchAt(s, k) ==
    LET p == IF Ch(s, k) \in {"S", "s"} THEN k + 1 ELSE k
    IN  IF MatchesWith(s, k, 2, 1) \/ MatchesWith(s, k, 2, 0)
        THEN SubSeq(s, p, p + 1)
        ELSE IF MatchesWith(s, k, 1, 1) \/ MatchesWith(s, k, 1, 0)
        THEN SubSeq(s, p, p)
        ELSE ""

\* find_season_info(video_file): re.search takes the leftmost match
find_season_info(s) ==
    LET S == {k \in 1..Len(s) : MatchAt(s, k) # ""}
    IN  IF S = {} THEN "Unknown"
        ELSE SeasonFolder(IntOf(MatchAt(s, CHOOSE k \in S : \A m \in S : k <= m)))

\* s.replace(old, new)
RECURSIVE StrReplace(_, _, _)
StrReplace(s, old, new) ==
    IF Len(s) < Len(old) THEN s
    ELSE IF SubSeq(s, 1, Len(old)) = old
    THEN new \o StrReplace(SubSeq(s, Len(old) + 1, Len(s)), old, new)
    ELSE Ch(s, 1) \o StrReplace(SubSeq(s, 2, Len(s)), old, new)

\* the folder the output goes to (lines 102-107); mkdir creates it
OutputFolderFile(p, source_folder, target_folder, keep_folder) ==
    IF keep_folder
    THEN Join(target_folder, RelativeTo(p, source_folder))
    ELSE Join(Join(target_folder, find_season_info(p)), Name(p))

\* output_file of lines 102-112
OutputPath(p, source_folder, target_folder, keep_folder) ==
    LET f == OutputFolderFile(p, source_folder, target_folder, keep_folder)
    IN  WithSuffix(WithStem(f, StrReplace(Stem(f), "264", "265")), ".mkv")

-----------------------------------------------------------------------------
(* The universe of paths and the options of a run.                         *)

\* temp_file of convert_and_replace.main: temp_<time>.mkv in the working
\* directory, one path for the whole batch
TempFile == "temp_1.mkv"

\* the files the source folder of the replace-in-place workflow may hold
ReplaceSources == {"src/a.avi", "src/a.mkv", "src/b.mkv", "src/b.mp4"}

\* a file of the source folder that is no video
NotesFile == "src/notes.txt"

\* the files the source folder of the sort workflow may hold
SortSources == {"src/s1e1.x264.mp4", "src/s1e1.x265.avi", "src/sub/clip.mkv"}

SortOutputs ==
    {OutputPath(p, "src", "tgt", k) : p \in SortSources, k \in BOOLEAN}

AllPaths ==
    ReplaceSources \cup {TempFile, NotesFile} \cup SortSources \cup SortOutputs

Kinds == {"none", "h264", "hevc", "bad"}

MakeFile(p, kind) == IF kind = "none" THEN Absent ELSE Original(p, kind)

Running == {"start", "scan", "convert", "engine", "verify", "rename", "move"}

Replace == opts.workflow = "replace"

\* the file the converting loop is at
video_file == convertable[j]

\* the path the engine writes to
output_file == IF Replace THEN TempFile ELSE outputs[j]

\* Path.rename(a, b) and shutil.move(a, b) on one filesystem: b is replaced
Rename(files, a, b) ==
    IF a = b THEN files ELSE [files EXCEPT ![b] = files[a], ![a] = Absent]

\* Path.unlink(missing_ok=True)
Unlink(files, a) == [files EXCEPT ![a] = Absent]

\* no helper is called on its own: main() is running
NoCall == [fn |-> "main"]

\* the values of the option acceptable_codecs: not given (None), or h264
AcceptableOptions == {{}, {"h264"}}

\* acceptable_codecs = acceptable_codecs or list(ACCEPTABLE_CODECS_DEFAULT)
AcceptableCodecs(option) ==
    IF option = {} THEN ACCEPTABLE_CODECS_DEFAULT ELSE option

InitReplace ==
    /\ \E kinds \in [ReplaceSources -> Kinds] :
          /\ Cardinality({p \in ReplaceSources : kinds[p] # "none"}) <= MaxFiles
          /\ fs = [p \in AllPaths |->
                     IF p \in ReplaceSources THEN MakeFile(p, kinds[p])
                     ELSE IF p = NotesFile THEN OtherFile(p)
                     ELSE Absent]
    /\ \E d \in BOOLEAN, c \in BOOLEAN, v \in {"hevc_nvenc", "h265"},
          a \in AcceptableOptions :
          opts = [workflow |-> "replace", source_folder |-> "src",
                  target_folder |-> "", dry_run |-> d, check_only |-> c,
                  video_codec |-> v, duration_tolerance |-> 5,
                  acceptable_codecs |-> AcceptableCodecs(a),
                  resume |-> FALSE, keep_folder |-> FALSE, reencode |-> FALSE]
    /\ dirs = {}
    /\ cache = [p \in AllPaths |-> NotCached]
    /\ pc = "start"
    /\ video_files = <<>>
    /\ i = 1
    /\ convertable = <<>>
    /\ outputs = <<>>
    /\ j = 1
    /\ run = 1
    /\ engineLog = {}
    /\ out = [p \in AllPaths |-> Absent]
    /\ used = [p \in AllPaths |-> NotCached]
    /\ verdict = [p \in AllPaths |-> "none"]
    /\ fs0 = fs
    /\ finished = {}
    /\ unfinished = {}
    /\ inp = [p \in AllPaths |-> Absent]
    /\ call = NoCall
    /\ ret = <<>>

history == <<engineLog, out, used, verdict, fs0, finished, unfinished, inp>>

-----------------------------------------------------------------------------
(* convert_and_replace.main                                                *)

\* video_files = find_video_files(source_folder)
ReplaceFindFiles ==
    /\ Replace /\ pc = "start"
    /\ video_files' = FindVideoFiles(fs, opts.source_folder, SUFFIXES)
    /\ pc' = "scan"
    /\ i' = 1
    /\ UNCHANGED <<call, ret, fs, dirs, cache, convertable, outputs, j, opts, run, history>>

\* the filter without the test for a failed probe
FilterIncludesUnprobed(video_info, acceptable_codecs) ==
    video_info.codec \notin acceptable_codecs

\* the filter without the test of the codec
FilterIncludesAll(video_info, acceptable_codecs) == video_info # None

\* one iteration of the loop of _filter_files_with_acceptable_codecs
FilterIncludes(video_info, acceptable_codecs) ==
    video_info # None /\ video_info.codec \notin acceptable_codecs

FilterStep ==
    /\ Replace /\ pc = "scan" /\ i <= Len(video_files)
    /\ LET video_info == GetVideoInfo(video_files[i])
       IN  /\ cache' = CacheAfter(video_files[i])
           /\ convertable' =
                IF FilterIncludes(video_info, opts.acceptable_codecs)
                THEN Append(convertable, video_files[i])
                ELSE convertable
    /\ i' = i + 1
    /\ UNCHANGED <<call, ret, fs, dirs, pc, video_files, outputs, j, opts, run, history>>

\* the scan is over: return when check_only, else enter the converting loop
FilterDone ==
    /\ Replace /\ pc = "scan" /\ i > Len(video_files)
    /\ pc' = IF opts.check_only THEN "done" ELSE "convert"
    /\ j' = 1
    /\ UNCHANGED <<call, ret, fs, dirs, cache, video_files, i, convertable, outputs, opts,
                   run, history>>

\* the head of the converting loop up to the call of convert_video
ReplaceConvert ==
    /\ Replace /\ pc = "convert" /\ j <= Len(convertable)
    /\ LET source_video_info == GetVideoInfo(video_file)
           how == ConvertVideo(opts.video_codec, opts.dry_run)
       IN  /\ cache' = CacheAfter(video_file)
           /\ IF source_video_info = None \/ how = "logged"
              THEN /\ pc' = "convert"
                   /\ j' = j + 1
                   /\ engineLog' = engineLog
              ELSE IF how = "error"
              THEN /\ pc' = "aborted"
                   /\ j' = j
                   /\ engineLog' = engineLog
              ELSE /\ pc' = "engine"
                   /\ j' = j
                   /\ engineLog' = engineLog \cup {<<run, video_file, TempFile>>}
    /\ UNCHANGED <<call, ret, fs, dirs, video_files, i, convertable, outputs, opts, run,
                   out, used, verdict, fs0, finished, unfinished, inp>>

-----------------------------------------------------------------------------
(* The engine: command.run(quiet=True) of convert_video.                   *)

\* the engine ends with exit status 0 and has written a complete output file,
\* of duration d when readable (q = "ok"), unreadable otherwise; control
\* returns to convert_and_replace.main, which goes on to verify the output
ReplaceEngineOk ==
    /\ Replace /\ pc = "engine"
    /\ fs[video_file].q = "ok"
    /\ \E q \in {"ok", "bad"}, d \in OutDurs :
          /\ q = "bad" => d = SrcDur
          /\ LET output == EngineOutput(fs[video_file], d, q)
             IN  /\ fs' = [fs EXCEPT ![TempFile] = output]
                 /\ out' = [out EXCEPT ![video_file] = output]
    /\ finished' = finished \cup {<<run, video_file>>}
    /\ inp' = [inp EXCEPT ![video_file] = fs[video_file]]
    /\ pc' = "verify"
    /\ UNCHANGED <<call, ret, dirs, cache, video_files, i, convertable, outputs, j, opts,
                   run, engineLog, used, verdict, fs0, unfinished>>

\* the same for convert_videos, which goes on to the next file: nothing reads
\* the output again, so one complete output stands for all
SortEngineOk ==
    /\ ~Replace /\ pc = "engine"
    /\ fs[video_file].q = "ok"
    /\ fs' = [fs EXCEPT ![outputs[j]] = EngineOutput(fs[video_file], SrcDur, "ok")]
    /\ finished' = finished \cup {<<run, video_file>>}
    /\ pc' = "convert"
    /\ j' = j + 1
    /\ UNCHANGED <<call, ret, dirs, cache, video_files, i, convertable, outputs, opts, run,
                   engineLog, out, used, verdict, fs0, unfinished, inp>>

\* the engine ends with a non-zero exit status: run raises FFMpegExecuteError,
\* which neither convert_video nor its callers catch.  The output path holds a
\* partial file when the engine had begun to write.
EngineFails ==
    /\ pc = "engine"
    /\ \E partial \in BOOLEAN :
          fs' = IF partial
                THEN [fs EXCEPT ![output_file] = PartialOutput(fs[video_file])]
                ELSE fs
    /\ pc' = "aborted"
    /\ unfinished' = unfinished \cup {<<run, video_file>>}
    /\ UNCHANGED <<call, ret, dirs, cache, video_files, i, convertable, outputs, j, opts,
                   run, engineLog, out, used, verdict, fs0, finished, inp>>

\* KeyboardInterrupt: the process ends where it is, nothing is cleaned up
Interrupt ==
    /\ pc \in Running
    /\ IF pc = "engine"
       THEN \E partial \in BOOLEAN :
               fs' = IF partial
                     THEN [fs EXCEPT ![output_file] = PartialOutput(fs[video_file])]
                     ELSE fs
       ELSE fs' = fs
    /\ unfinished' = IF pc = "engine"
                     THEN unfinished \cup {<<run, video_file>>}
                     ELSE unfinished
    /\ pc' = "interrupted"
    /\ UNCHANGED <<call, ret, dirs, cache, video_files, i, convertable, outputs, j, opts,
                   run, engineLog, out, used, verdict, fs0, finished, inp>>

-----------------------------------------------------------------------------
(* Verification and commit of convert_and_replace.main.                    *)

\* how the verification of lines 137-157 ends for the two probe results
Verification(target_video_info, source_video_info, tolerance) ==
    IF target_video_info = None THEN "probe_failed"
    ELSE IF DurationMismatch(target_video_info.dur, source_video_info.dur,
                             tolerance)
    THEN "rejected"
    ELSE "accepted"

Verify ==
    /\ Replace /\ pc = "verify"
    /\ LET target_video_info == GetVideoInfo(TempFile)
           source_video_info == cache[video_file]
           result == Verification(target_video_info, source_video_info,
                                  opts.duration_tolerance)
       IN  /\ cache' = CacheAfter(TempFile)
           /\ used' = [used EXCEPT ![video_file] = target_video_info]
           /\ verdict' = [verdict EXCEPT ![video_file] = result]
           /\ IF result = "accepted"
              THEN pc' = "rename" /\ j' = j
              ELSE pc' = "convert" /\ j' = j + 1
    /\ UNCHANGED <<call, ret, fs, dirs, video_files, i, convertable, outputs, opts, run,
                   engineLog, out, fs0, finished, unfinished, inp>>

\* a rename that keeps the name: the source stays where it is
RenameTargetSame(p) == p

\* if video_file.suffix.lower() != ".mkv": video_file.rename(...)
\* (the suffixes of SUFFIXES are lower case, so lower() changes nothing)
RenameTarget(p) == WithSuffix(p, ".mkv")

CommitRename ==
    /\ Replace /\ pc = "rename"
    /\ fs' = IF Suffix(video_file) # ".mkv"
             THEN Rename(fs, video_file, RenameTarget(video_file))
             ELSE fs
    /\ pc' = "move"
    /\ UNCHANGED <<call, ret, dirs, cache, video_files, i, convertable, outputs, j, opts,
                   run, history>>

\* shutil.move(temp_file, video_file.with_suffix(".mkv"))
CommitMove ==
    /\ Replace /\ pc = "move"
    /\ fs' = Rename(fs, TempFile, WithSuffix(video_file, ".mkv"))
    /\ pc' = "convert"
    /\ j' = j + 1
    /\ UNCHANGED <<call, ret, dirs, cache, video_files, i, convertable, outputs, opts, run,
                   history>>

\* after the loop: temp_file.unlink(missing_ok=True)
ReplaceFinish ==
    /\ Replace /\ pc = "convert" /\ j > Len(convertable)
    /\ fs' = Unlink(fs, TempFile)
    /\ pc' = "done"
    /\ UNCHANGED <<call, ret, dirs, cache, video_files, i, convertable, outputs, j, opts,
                   run, history>>

-----------------------------------------------------------------------------
(* convert_and_sort.main and convert_videos                                *)

\* video_codec of the FFMPEGConfig that convert_and_sort.main builds
SortVideoCodec == "hevc_nvenc"

InitSort ==
    /\ \E kinds \in [SortSources -> Kinds] :
          /\ Cardinality({p \in SortSources : kinds[p] # "none"}) <= MaxSortFiles
          /\ fs = [p \in AllPaths |->
                     IF p \in SortSources THEN MakeFile(p, kinds[p])
                     ELSE IF p = NotesFile THEN OtherFile(p)
                     ELSE Absent]
    /\ \E d \in BOOLEAN, r \in BOOLEAN, k \in BOOLEAN, e \in BOOLEAN :
          opts = [workflow |-> "sort", source_folder |-> "src",
                  target_folder |-> "tgt", dry_run |-> d, check_only |-> FALSE,
                  video_codec |-> SortVideoCodec, duration_tolerance |-> 5,
                  acceptable_codecs |-> ACCEPTABLE_CODECS_DEFAULT,
                  resume |-> r, keep_folder |-> k, reencode |-> e]
    /\ dirs = {}
    /\ cache = [p \in AllPaths |-> NotCached]
    /\ pc = "start"
    /\ video_files = <<>>
    /\ i = 1
    /\ convertable = <<>>
    /\ outputs = <<>>
    /\ j = 1
    /\ run = 1
    /\ engineLog = {}
    /\ out = [p \in AllPaths |-> Absent]
    /\ used = [p \in AllPaths |-> NotCached]
    /\ verdict = [p \in AllPaths |-> "none"]
    /\ fs0 = fs
    /\ finished = {}
    /\ unfinished = {}
    /\ inp = [p \in AllPaths |-> Absent]
    /\ call = NoCall
    /\ ret = <<>>

\* video_files = find_video_files(source_folder, suffixes=suffix_set)
SortFindFiles ==
    /\ ~Replace /\ pc = "start"
    /\ video_files' = FindVideoFiles(fs, opts.source_folder, SUFFIXES)
    /\ pc' = "scan"
    /\ i' = 1
    /\ UNCHANGED <<call, ret, fs, dirs, cache, convertable, outputs, j, opts, run, history>>

\* line 96: the file is skipped as already being in the target format
AlreadyTarget(video_info, video_codec, reencode) ==
    video_info.codec = video_codec /\ ~reencode

\* resume that skips nothing
ResumeSkipsNever(resume, output_exists) == FALSE

\* line 114: the file is skipped as its output exists
ResumeSkips(resume, output_exists) == resume /\ output_exists

\* one iteration of the loop that builds convert_map
BuildMap ==
    /\ ~Replace /\ pc = "scan" /\ i <= Len(video_files)
    /\ LET f == video_files[i]
           video_info == GetVideoInfo(f)
           folder_file == OutputFolderFile(f, opts.source_folder,
                                           opts.target_folder, opts.keep_folder)
           output == OutputPath(f, opts.source_folder, opts.target_folder,
                                opts.keep_folder)
       IN  /\ cache' = CacheAfter(f)
           /\ IF video_info = None
              THEN UNCHANGED <<dirs, convertable, outputs>>
              ELSE IF AlreadyTarget(video_info, opts.video_codec, opts.reencode)
              THEN UNCHANGED <<dirs, convertable, outputs>>
              ELSE /\ dirs' = dirs \cup Ancestors(Parent(folder_file))
                   /\ IF ResumeSkips(opts.resume, fs[output] # Absent)
                      THEN UNCHANGED <<convertable, outputs>>
                      ELSE /\ convertable' = Append(convertable, f)
                           /\ outputs' = Append(outputs, output)
    /\ i' = i + 1
    /\ UNCHANGED <<call, ret, fs, pc, video_files, j, opts, run, history>>

\* the map is built: convert_videos(keys, values, ffmpeg_config, dry_run)
MapDone ==
    /\ ~Replace /\ pc = "scan" /\ i > Len(video_files)
    /\ pc' = "convert"
    /\ j' = 1
    /\ UNCHANGED <<call, ret, fs, dirs, cache, video_files, i, convertable, outputs, opts,
                   run, history>>

\* one iteration of the loop of convert_videos up to the engine run
ConvertVideos ==
    /\ ~Replace /\ pc = "convert" /\ j <= Len(convertable)
    /\ LET video_info == GetVideoInfo(video_file)
           how == ConvertVideo(opts.video_codec, opts.dry_run)
       IN  /\ cache' = CacheAfter(video_file)
           /\ IF video_info = None \/ how = "logged"
              THEN /\ pc' = "convert"
                   /\ j' = j + 1
                   /\ engineLog' = engineLog
              ELSE IF how = "error"
              THEN /\ pc' = "aborted"
                   /\ j' = j
                   /\ engineLog' = engineLog
              ELSE /\ pc' = "engine"
                   /\ j' = j
                   /\ engineLog' = engineLog \cup {<<run, video_file, outputs[j]>>}
    /\ UNCHANGED <<call, ret, fs, dirs, video_files, i, convertable, outputs, opts, run,
                   out, used, verdict, fs0, finished, unfinished, inp>>

\* convert_videos returns and main ends
SortFinish ==
    /\ ~Replace /\ pc = "convert" /\ j > Len(convertable)
    /\ pc' = "done"
    /\ UNCHANGED <<call, ret, fs, dirs, cache, video_files, i, convertable, outputs, j,
                   opts, run, history>>

\* the user runs the batch again, with or without --resume: a new process,
\* so the cache of get_video_info starts empty
Rerun ==
    /\ ~Replace /\ pc \in {"done", "aborted", "interrupted"}
    /\ run < MaxRuns
    /\ \E r \in BOOLEAN : opts' = [opts EXCEPT !.resume = r]
    /\ run' = run + 1
    /\ cache' = [p \in AllPaths |-> NotCached]
    /\ pc' = "start"
    /\ video_files' = <<>>
    /\ i' = 1
    /\ convertable' = <<>>
    /\ outputs' = <<>>
    /\ j' = 1
    /\ fs0' = fs
    /\ UNCHANGED <<call, ret, fs, dirs, engineLog, out, used, verdict, finished, unfinished, inp>>

NextSort ==
    \/ SortFindFiles
    \/ BuildMap
    \/ MapDone
    \/ ConvertVideos
    \/ SortEngineOk
    \/ EngineFails
    \/ Interrupt
    \/ SortFinish
    \/ Rerun

SpecSort == InitSort /\ [][NextSort]_vars

NextReplace ==
    \/ ReplaceFindFiles
    \/ FilterStep
    \/ FilterDone
    \/ ReplaceConvert
    \/ ReplaceEngineOk
    \/ EngineFails
    \/ Interrupt
    \/ Verify
    \/ CommitRename
    \/ CommitMove
    \/ ReplaceFinish

SpecReplace == InitReplace /\ [][NextReplace]_vars

\* either workflow
Init == InitReplace \/ InitSort

Next ==
    \/ ReplaceFindFiles
    \/ FilterStep
    \/ FilterDone
    \/ ReplaceConvert
    \/ ReplaceEngineOk
    \/ Verify
    \/ CommitRename
    \/ CommitMove
    \/ ReplaceFinish
    \/ SortFindFiles
    \/ BuildMap
    \/ MapDone
    \/ ConvertVideos
    \/ SortEngineOk
    \/ SortFinish
    \/ Rerun
    \/ EngineFails
    \/ Interrupt

Spec == Init /\ [][Next]_vars

-----------------------------------------------------------------------------
(* The duration check on its own: a batch of one file whose transcode has  *)
(* just ended, for a range of source durations, output durations and       *)
(* tolerances.                                                             *)

\* source durations: 30 s, 100 s, 200 s
VerifySources == {300, 1000, 2000}

\* how far the output's duration is from the source's, either way: 0 s, 1 s,
\* 4.9 s, 5.0 s, 5.1 s, 6.0 s, 9.9 s, 10.0 s, 10.1 s, 20 s
VerifyDiffs == {0, 10, 49, 50, 51, 60, 99, 100, 101, 200}

\* tolerances in percent: 0.0, 0.02, 0.05, 0.10
VerifyTolerances == {0, 2, 5, 10}

InitVerify ==
    /\ \E s \in VerifySources, d \in VerifyDiffs, sign \in {-1, 1},
          t \in VerifyTolerances :
          LET source == [id |-> "src/b.mp4", gen |-> 0, codec |-> "h264",
                         dur |-> s, q |-> "ok"]
              output == EngineOutput(source, s + sign * d, "ok")
          IN  /\ fs = [p \in AllPaths |->
                         IF p = "src/b.mp4" THEN source
                         ELSE IF p = TempFile THEN output
                         ELSE Absent]
              /\ fs0 = [fs EXCEPT ![TempFile] = Absent]
              /\ cache = [p \in AllPaths |->
                            IF p = "src/b.mp4" THEN ProbeFile(source)
                            ELSE NotCached]
              /\ out = [p \in AllPaths |->
                          IF p = "src/b.mp4" THEN output ELSE Absent]
              /\ inp = [p \in AllPaths |->
                          IF p = "src/b.mp4" THEN source ELSE Absent]
              /\ opts = [workflow |-> "replace", source_folder |-> "src",
                         target_folder |-> "", dry_run |-> FALSE,
                         check_only |-> FALSE, video_codec |-> "hevc_nvenc",
                         duration_tolerance |-> t,
                         acceptable_codecs |-> ACCEPTABLE_CODECS_DEFAULT,
                         resume |-> FALSE, keep_folder |-> FALSE,
                         reencode |-> FALSE]
    /\ dirs = {}
    /\ pc = "verify"
    /\ video_files = <<"src/b.mp4">>
    /\ i = 2
    /\ convertable = <<"src/b.mp4">>
    /\ outputs = <<>>
    /\ j = 1
    /\ run = 1
    /\ engineLog = {<<1, "src/b.mp4", TempFile>>}
    /\ used = [p \in AllPaths |-> NotCached]
    /\ verdict = [p \in AllPaths |-> "none"]
    /\ finished = {<<1, "src/b.mp4">>}
    /\ unfinished = {}
    /\ call = NoCall
    /\ ret = <<>>

NextVerify ==
    \/ Verify
    \/ CommitRename
    \/ CommitMove
    \/ ReplaceFinish

SpecVerify == InitVerify /\ [][NextVerify]_vars

-----------------------------------------------------------------------------
(* The helpers of basics.py called on their own, each on a range of        *)
(* arguments: get_video_info on what ffprobe reports, convert_video (after *)
(* main() has built its FFMPEGConfig from the options) up to the streams   *)
(* it hands to the engine, find_season_info and find_video_files.          *)

\* the most streams of a probed file
MaxStreams == 3

\* the most audio streams, and subtitle streams, of a file to convert
MaxLangs == 2

\* the most files in the directory tree that find_video_files walks
MaxScanFiles == 3

\* the sequences over S of length at most n
SeqsUpTo(S, n) == UNION {[1..m -> S] : m \in 0..n}

\* streams as ffprobe reports them
StreamKinds ==
    {Stream("video", "h264", 1280, 720, FALSE, {}),
     Stream("video", "hevc", 640, 480, TRUE, {<<"language", "jpn">>}),
     Stream("audio", "aac", 0, 0, TRUE, {<<"language", "eng">>}),
     Stream("audio", "mp3", 0, 0, TRUE, {<<"language", "deu">>, <<"title", "Stereo">>}),
     Stream("audio", "aac", 0, 0, TRUE, {<<"title", "Commentary">>}),
     Stream("audio", "aac", 0, 0, TRUE, {}),
     Stream("audio", "pcm", 0, 0, FALSE, {}),
     Stream("subtitle", "subrip", 0, 0, TRUE, {<<"language", "eng">>}),
     Stream("subtitle", "subrip", 0, 0, FALSE, {}),
     Stream("data", "bin_data", 0, 0, TRUE, {<<"language", "fra">>})}

ProbeCalls ==
    {[fn |-> "get_video_info",
      file_info |-> [ok |-> FALSE, streams |-> <<>>, duration |-> 0]]}
    \cup {[fn |-> "get_video_info",
           file_info |-> [ok |-> TRUE, streams |-> st, duration |-> SrcDur]] :
             st \in SeqsUpTo(StreamKinds, MaxStreams)}

\* the values of the language options of the two main()
AudioOptions ==
    {NotGiven, Given(<<>>), Given(<<"eng">>), Given(<<"deu", "eng">>)}

SubtitleOptions == {NotGiven, Given(<<"eng">>), Given(<<"fra">>)}

\* the values of the option maximum_width
WidthOptions == {NoWidth, Width(0), Width(640), Width(1280)}

NoConfig ==
    [audio_languages |-> NotGiven, subtitle_languages |-> NotGiven,
     maximum_width |-> NoWidth]

ConvertCall(workflow, like_audio, audio, subtitle, maximum_width, width, al, sl) ==
    [fn |-> "convert_video", workflow |-> workflow,
     options |-> [audio_languages |-> audio, subtitle_languages |-> subtitle,
                  subtitle_like_audio |-> like_audio,
                  maximum_width |-> maximum_width],
     video_info |-> [k |-> "info", width |-> width, height |-> 720,
                     codec |-> "h264", audio_languages |-> al,
                     subtitle_languages |-> sl,
                     dur |-> SrcDur],
     ffmpeg_config |-> NoConfig]

\* convert_and_sort.main has no option subtitle_like_audio
Workflows == {<<"sort", FALSE>>, <<"replace", FALSE>>, <<"replace", TRUE>>}

ConvertCalls ==
    {ConvertCall(wf[1], wf[2], a, s, NoWidth, 1280, al, sl) :
        wf \in Workflows, a \in AudioOptions, s \in SubtitleOptions,
        al \in SeqsUpTo({"eng", "deu", "unk"}, MaxLangs),
        sl \in SeqsUpTo({"eng", "unk"}, MaxLangs)}
    \cup {ConvertCall(wf[1], wf[2], NotGiven, NotGiven, mw, w, <<"eng">>, <<>>) :
             wf \in Workflows, mw \in WidthOptions, w \in {640, 1280, 1920}}

\* file names, among them those of test_season_info
SeasonNames ==
    {"Show.S01E01.mkv", "Show_S02_E05.mp4", "Show-3x10.avi",
     "ShowSeason04Episode12.mkv", "Show.E10.S05.mkv", "RandomVideo.mkv",
     "src/s1e1.x264.mp4", "Show.s12e03.mkv", "Show.S123E04.mkv",
     "Show.1x02.avi", "Show.S7.E1.mkv", "Video2024.mkv"}

SeasonCalls == {[fn |-> "find_season_info", video_file |-> n] : n \in SeasonNames}

\* the files a directory tree may hold
ScanPaths ==
    {"src/a.mkv", "src/B.MKV", "src/b.mp4", "src/notes.txt", "src/.mkv",
     "src/sub.mkv", "src/sub/c.avi", "src/sub/deep/d.mkv", "src/dir.mp4/e.txt",
     "srcx/y.mkv", "other/x.mp4"}

\* the values of the argument suffixes: None (here {}) or a set
SuffixOptions == {{}, {".mkv"}, {".avi", ".mp4"}, {".txt"}}

\* suffixes = suffixes or SUFFIXES
SuffixesOrDefault(suffixes) == IF suffixes = {} THEN SUFFIXES ELSE suffixes

\* no batch is running
NoBatch ==
    /\ dirs = {}
    /\ cache = [p \in AllPaths |-> NotCached]
    /\ video_files = <<>>
    /\ i = 1
    /\ convertable = <<>>
    /\ outputs = <<>>
    /\ j = 1
    /\ run = 1
    /\ opts = [workflow |-> "none"]
    /\ engineLog = {}
    /\ out = [p \in AllPaths |-> Absent]
    /\ used = [p \in AllPaths |-> NotCached]
    /\ verdict = [p \in AllPaths |-> "none"]
    /\ fs0 = fs
    /\ finished = {}
    /\ unfinished = {}
    /\ inp = [p \in AllPaths |-> Absent]
    /\ ret = <<>>

InitHelpers ==
    /\ \/ /\ call \in ProbeCalls \cup SeasonCalls
          /\ fs = [p \in ScanPaths |-> Absent]
          /\ pc = "call"
       \/ /\ call \in ConvertCalls
          /\ fs = [p \in ScanPaths |-> Absent]
          /\ pc = "options"
       \/ /\ \E files \in SUBSET ScanPaths :
                /\ Cardinality(files) <= MaxScanFiles
                /\ fs = [p \in ScanPaths |->
                           IF p \in files THEN OtherFile(p) ELSE Absent]
          /\ \E root \in {"src", "src/sub"}, suffixes \in SuffixOptions :
                call = [fn |-> "find_video_files", root_folder |-> root,
                        suffixes |-> suffixes]
          /\ pc = "call"
    /\ NoBatch

batch == <<fs, dirs, cache, video_files, i, convertable, outputs, j, opts, run,
           engineLog, out, used, verdict, fs0, finished, unfinished, inp>>

\* main() builds the FFMPEGConfig that it hands to convert_video
BuildConfig ==
    /\ pc = "options" /\ call.fn = "convert_video"
    /\ call' = [call EXCEPT
                   !.ffmpeg_config = FFMPEGConfigOf(call.workflow, call.options)]
    /\ pc' = "call"
    /\ UNCHANGED <<ret, batch>>

\* convert_video up to the streams of the command
CallConvertVideo ==
    /\ pc = "call" /\ call.fn = "convert_video"
    /\ ret' = MuxStreams(call.video_info, call.ffmpeg_config)
    /\ pc' = "returned"
    /\ UNCHANGED <<call, batch>>

CallGetVideoInfo ==
    /\ pc = "call" /\ call.fn = "get_video_info"
    /\ ret' = VideoInfoOf(call.file_info)
    /\ pc' = "returned"
    /\ UNCHANGED <<call, batch>>

CallFindSeasonInfo ==
    /\ pc = "call" /\ call.fn = "find_season_info"
    /\ ret' = find_season_info(call.video_file)
    /\ pc' = "returned"
    /\ UNCHANGED <<call, batch>>

CallFindVideoFiles ==
    /\ pc = "call" /\ call.fn = "find_video_files"
    /\ ret' = FindVideoFiles(fs, call.root_folder,
                             SuffixesOrDefault(call.suffixes))
    /\ pc' = "returned"
    /\ UNCHANGED <<call, batch>>

NextHelpers ==
    \/ BuildConfig
    \/ CallConvertVideo
    \/ CallGetVideoInfo
    \/ CallFindSeasonInfo
    \/ CallFindVideoFiles

SpecHelpers == InitHelpers /\ [][NextHelpers]_vars

-----------------------------------------------------------------------------
(* Properties.                                                             *)

\* the engine inputs of the current run
EngineInputs == {e[2] : e \in {x \in engineLog : x[1] = run}}

\* the verification of p accepted the output of p's own transcode
AcceptedOwnOutput(p) ==
    verdict[p] = "accepted" /\ used[p] = ProbeFile(out[p])

\* C1: in the replace-in-place workflow, in every reachable state (interrupts
\* included), a file of the batch whose own converted output has not been
\* probed and accepted by the duration check is still at its original path
\* with its original content.
C1_SourceKeptUntilVerified ==
    Replace =>
        \A p \in Range(convertable) :
            ~AcceptedOwnOutput(p) => fs[p] = fs0[p]

\* C2: for every file of the batch, the output metadata that the verification
\* uses is the result of probing the output of that file's own transcode.
C2_VerificationProbesOwnOutput ==
    Replace =>
        \A p \in ReplaceSources :
            used[p] # NotCached => used[p] = ProbeFile(out[p])

\* C3: the verification rejects iff the duration difference is strictly
\* greater than tolerance * source duration and strictly greater than 5.0 s,
\* and accepts in every other case; for a source of 100 s and tolerance 0.05
\* a difference of 4.9 s is accepted and one of 6.0 s is rejected.
C3_RejectionRule ==
    \A p \in ReplaceSources :
        (verdict[p] # "none" /\ used[p] # None) =>
            LET source == cache[p].dur
                diff == Abs(used[p].dur - source)
                tolerance == opts.duration_tolerance
            IN  /\ verdict[p] \in {"accepted", "rejected"}
                /\ verdict[p] = "accepted" <=>
                       (diff * 100 <= tolerance * source \/ diff <= 50)
                /\ (source = 1000 /\ tolerance = 5 /\ diff = 49)
                       => verdict[p] = "accepted"
                /\ (source = 1000 /\ tolerance = 5 /\ diff = 60)
                       => verdict[p] = "rejected"

\* a rejection where the difference exceeds the percentage by little and the
\* floor by more: 30 s source, 5 %, 5.1 s off
C3_Witness ==
    \E p \in ReplaceSources :
        /\ verdict[p] = "rejected"
        /\ cache[p].dur = 300
        /\ opts.duration_tolerance = 5
        /\ Abs(used[p].dur - cache[p].dur) = 51

\* C4: an engine failure on one file is confined to that file: the source is
\* left as it was and the batch goes on with the next file, when there is one.
C4_EngineFailureConfined ==
    [][(EngineFails /\ j < Len(convertable)) =>
          /\ fs'[video_file] = fs[video_file]
          /\ pc' = "convert"
          /\ j' = j + 1]_vars

\* C5: when the verification accepted the output for P, then after the rename
\* and before the move P's content is at P's .mkv name and the output still at
\* the temporary path, and after the move the .mkv name holds the converted
\* output and the temporary path is gone; P itself is gone in both states
\* when its suffix was not .mkv.
C5_CommitEndState ==
    /\ (Replace /\ pc = "move") =>
          /\ fs[WithSuffix(video_file, ".mkv")] = inp[video_file]
          /\ fs[TempFile] = out[video_file]
          /\ Suffix(video_file) # ".mkv" => fs[video_file] = Absent
    /\ (Replace /\ pc = "convert" /\ j > 1
           /\ verdict[convertable[j - 1]] = "accepted") =>
          LET P == convertable[j - 1]
          IN  /\ fs[WithSuffix(P, ".mkv")] = out[P]
              /\ fs[TempFile] = Absent
              /\ Suffix(P) # ".mkv" => fs[P] = Absent

\* a file that was no .mkv has just been committed
C5_Witness ==
    /\ Replace /\ pc = "convert" /\ j > 1
    /\ verdict[convertable[j - 1]] = "accepted"
    /\ Suffix(convertable[j - 1]) # ".mkv"
    /\ fs[WithSuffix(convertable[j - 1], ".mkv")] = out[convertable[j - 1]]

\* the scanning loop has gone through all of video_files
ScanOver == pc \in {"convert", "engine", "verify", "rename", "move", "done", "aborted"}

C7_DryRunNoEffect ==
    opts.dry_run =>
        /\ engineLog = {}
        /\ pc \notin {"engine", "verify", "rename", "move"}
        /\ \A p \in AllPaths : verdict[p] = "none"
        /\ fs = fs0

\* a dry run of the replace-in-place workflow ended with two files to convert
C7_Witness ==
    /\ Replace /\ opts.dry_run /\ pc = "done"
    /\ Len(convertable) >= 2
    /\ j > Len(convertable)

\* C8: with resume, no file whose output path existed when the map was built
\* is in the convert-map, and the engine is run for entries of the map only;
\* without resume every probed file that is not skipped as being in the target
\* codec is in the map, its output existing or not.
C8_ResumeSkipsExisting ==
    ~Replace =>
        /\ opts.resume => \A k \in 1..Len(outputs) : fs0[outputs[k]] = Absent
        /\ \A e \in engineLog :
              e[1] = run => \E k \in 1..Len(convertable) :
                                convertable[k] = e[2] /\ outputs[k] = e[3]
        /\ (~opts.resume /\ ScanOver) =>
              \A k \in 1..Len(video_files) :
                  LET f == video_files[k]
                  IN  (cache[f] # None
                         /\ ~(cache[f].codec = opts.video_codec /\ ~opts.reencode))
                        => f \in Range(convertable)

\* a resume run ended that skipped a file whose output existed, whatever that
\* output holds, and converted another
C8_Witness ==
    /\ ~Replace /\ opts.resume /\ pc = "done"
    /\ \E f \in Range(video_files) :
          /\ cache[f] # None
          /\ f \notin Range(convertable)
          /\ fs0[OutputPath(f, opts.source_folder, opts.target_folder,
                            opts.keep_folder)].q = "partial"
    /\ \E g \in Range(convertable) : <<run, g>> \in finished

\* C9: after a resume re-run that ran to its end, no file whose conversion had
\* finished in the first run was converted again, and every file whose
\* conversion failed or was interrupted in the first run has been converted.
C9_ResumeRerunCompletes ==
    (~Replace /\ run = 2 /\ opts.resume /\ ~opts.dry_run /\ pc = "done") =>
        /\ \A e \in finished : e[1] = 1 => e[2] \notin EngineInputs
        /\ \A e \in unfinished :
              (e[1] = 1 /\ <<1, e[2]>> \notin finished)
                  => <<2, e[2]>> \in finished

\* C10: a source whose probed codec is "hevc" is in the convert-map only when
\* reencode is set.
C10_HevcExcludedUnlessReencode ==
    ~Replace =>
        \A k \in 1..Len(convertable) :
            cache[convertable[k]].codec = "hevc" => opts.reencode

\* C11: in the replace-in-place workflow the convertable files are exactly the
\* scanned files whose probe succeeds and whose codec is not among the
\* acceptable codecs, in the order of the scan; with the default list an h264
\* source is in, an hevc source and a source whose probe fails are out.
C11_ConvertableSet ==
    Replace =>
        LET scanned == SubSeq(video_files, 1, i - 1)
            Wanted(p) == /\ fs0[p].q = "ok"
                         /\ fs0[p].codec \notin opts.acceptable_codecs
        IN  /\ convertable = SelectSeq(scanned, Wanted)
            /\ \A p \in Range(scanned) :
                  /\ (opts.acceptable_codecs = {"hevc"} /\ fs0[p].codec = "h264")
                        => p \in Range(convertable)
                  /\ (opts.acceptable_codecs = {"hevc"} /\ fs0[p].codec = "hevc")
                        => p \notin Range(convertable)
                  /\ fs0[p].q = "bad" => p \notin Range(convertable)

\* the scan of an h264, an hevc and an unreadable file is over, default list
C11_Witness ==
    /\ Replace /\ pc = "convert"
    /\ opts.acceptable_codecs = {"hevc"}
    /\ Len(convertable) = 1
    /\ \E p \in Range(video_files) : fs0[p].codec = "hevc"
    /\ \E p \in Range(video_files) : fs0[p].q = "bad"

\* convert_video has returned the streams of its command
Selected == pc = "returned" /\ call.fn = "convert_video"

\* the streams of one kind among the selected streams, in their order
Part(kind) ==
    LET OfKind(stream) == stream.kind = kind
    IN  SelectSeq(ret, OfKind)

\* part is the selection that the language list makes among the probed
\* languages of the streams of one kind
SelectionBy(part, probed, languages) ==
    IF languages.set /\ Len(languages.list) > 0
    THEN /\ \A n \in 1..Len(part) : ~part[n].all
         /\ {part[n].index : n \in 1..Len(part)}
               = {m - 1 : m \in {x \in 1..Len(probed) :
                                    \E y \in 1..Len(languages.list) :
                                        languages.list[y] = probed[x]}}
         /\ \A n \in 1..(Len(part) - 1) : part[n].index < part[n + 1].index
    ELSE IF Len(probed) > 0
    THEN Len(part) = 1 /\ part[1].all
    ELSE part = <<>>

\* C12: the audio streams convert_video selects are those the configured
\* audio languages select among the probed ones (by position from 0, in
\* ascending order, all streams when the list is empty or unset, none when
\* there is no stream), the same for subtitles, and the video stream is
\* selected once and comes first.
C12_StreamSelection ==
    Selected =>
        /\ ret[1].kind = "video"
        /\ Len(Part("video")) = 1
        /\ SelectionBy(Part("audio"), call.video_info.audio_languages,
                       call.ffmpeg_config.audio_languages)
        /\ SelectionBy(Part("subtitle"), call.video_info.subtitle_languages,
                       call.ffmpeg_config.subtitle_languages)
        /\ Len(ret) = 1 + Len(Part("audio")) + Len(Part("subtitle"))

\* of two audio streams the second alone is selected, and the subtitle
\* languages select none of the subtitle streams that exist
C12_Witness ==
    /\ Selected
    /\ Len(call.video_info.audio_languages) = 2
    /\ Len(Part("audio")) = 1 /\ Part("audio")[1].index = 1
    /\ Len(call.video_info.subtitle_languages) > 0
    /\ call.ffmpeg_config.subtitle_languages.list # <<>>
    /\ Part("subtitle") = <<>>

\* C13: in the sort workflow, when no subtitle languages are given, the
\* subtitle streams are selected by the audio languages; in the
\* replace-in-place workflow they are selected by the audio languages when
\* subtitle_like_audio is set and by the subtitle languages otherwise.
C13_SubtitleLanguagesFromAudio ==
    Selected =>
        LET options == call.options
            probed == call.video_info.subtitle_languages
        IN  /\ (call.workflow = "sort" /\ ~options.subtitle_languages.set)
                  => SelectionBy(Part("subtitle"), probed, options.audio_languages)
            /\ call.workflow = "replace"
                  => SelectionBy(Part("subtitle"), probed,
                                 IF options.subtitle_like_audio
                                 THEN options.audio_languages
                                 ELSE options.subtitle_languages)
\* C16: find_season_info gives "S" and the two-digit season number for the
\* names with a season/episode pattern and "Unknown" for a name without one:
\* the six examples.
C16_SeasonExamples ==
    (pc = "returned" /\ call.fn = "find_season_info") =>
        /\ call.video_file = "Show.S01E01.mkv" => ret = "S01"
        /\ call.video_file = "Show_S02_E05.mp4" => ret = "S02"
        /\ call.video_file = "Show-3x10.avi" => ret = "S03"
        /\ call.video_file = "ShowSeason04Episode12.mkv" => ret = "S04"
        /\ call.video_file = "Show.E10.S05.mkv" => ret = "S05"
        /\ call.video_file = "RandomVideo.mkv" => ret = "Unknown"

\* C17: the video stream goes through the scale filter if and only if
\* maximum_width is set and the probed width is strictly greater than it, and
\* the filter's width is then maximum_width.
C17_RescaleRule ==
    Selected =>
        LET maximum_width == call.options.maximum_width
        IN  /\ ret[1].scaled <=>
                  (maximum_width.set /\ call.video_info.width > maximum_width.w)
            /\ ret[1].scaled => ret[1].w = maximum_width.w

\* find_video_files has returned
Scanned == pc = "returned" /\ call.fn = "find_video_files"

\* C18: find_video_files returns exactly the paths of the tree below the root,
\* at any depth, whose suffix is in the configured set (the default set when
\* none is given), each once, in ascending order.
C18_ScanResult ==
    Scanned =>
        LET configured == IF call.suffixes = {} THEN SUFFIXES ELSE call.suffixes
            root == call.root_folder \o "/"
            below == {p \in Entries(fs) :
                        Len(p) > Len(root) /\ SubSeq(p, 1, Len(root)) = root}
        IN  /\ Range(ret) = {p \in below : Suffix(p) \in configured}
            /\ \A p \in below : Suffix(p) \notin configured => p \notin Range(ret)
            /\ \A n \in 1..Len(ret), m \in 1..Len(ret) :
                  n < m => PathLess(ret[n], ret[m])

\* a scan with the default set that found a file two folders down and another
\* path, and left out a file of the tree with another suffix
C18_Witness ==
    /\ Scanned /\ call.suffixes = {} /\ call.root_folder = "src"
    /\ Len(ret) = 2
    /\ "src/sub/deep/d.mkv" \in Range(ret)
    /\ fs["src/notes.txt"] # Absent

\* get_video_info has returned
Probed == pc = "returned" /\ call.fn = "get_video_info"

\* the positions of the streams of one type, and the n-th of them
StreamsOfType(type) ==
    {n \in 1..Len(call.file_info.streams) :
        call.file_info.streams[n].codec_type = type}

NthOfType(type, n) ==
    call.file_info.streams[
        CHOOSE x \in StreamsOfType(type) :
            Cardinality({y \in StreamsOfType(type) : y <= x}) = n]

\* the language tag of a stream, "unk" without tags or without language tag
LanguageTag(stream) ==
    IF ~stream.has_tags THEN "unk"
    ELSE IF {t \in stream.tags : t[1] = "language"} = {} THEN "unk"
    ELSE (CHOOSE t \in stream.tags : t[1] = "language")[2]

\* C19: the probe result has one language per audio stream and one per
\* subtitle stream, in stream order, the language tag or "unk"; width,
\* height and codec are those of the first video stream; the result is a
\* failure when there is no video stream.
C19_ProbeResult ==
    Probed =>
        IF ~call.file_info.ok \/ StreamsOfType("video") = {}
        THEN ret.k = "none"
        ELSE /\ ret.k = "info"
             /\ Len(ret.audio_languages) = Cardinality(StreamsOfType("audio"))
             /\ \A n \in 1..Len(ret.audio_languages) :
                   ret.audio_languages[n] = LanguageTag(NthOfType("audio", n))
             /\ Len(ret.subtitle_languages)
                   = Cardinality(StreamsOfType("subtitle"))
             /\ \A n \in 1..Len(ret.subtitle_languages) :
                   ret.subtitle_languages[n]
                       = LanguageTag(NthOfType("subtitle", n))
             /\ ret.width = NthOfType("video", 1).width
             /\ ret.height = NthOfType("video", 1).height
             /\ ret.codec = NthOfType("video", 1).codec_name

\* a file with two different video streams and an audio stream that has tags
\* but no language
C19_Witness ==
    /\ Probed /\ ret.k = "info"
    /\ Cardinality(StreamsOfType("video")) = 2
    /\ NthOfType("video", 1) # NthOfType("video", 2)
    /\ ret.audio_languages = <<"unk">>
    /\ NthOfType("audio", 1).tags # {}

\* C14: when the configured video codec is not an encoder the engine knows,
\* the first call of convert_video ends the batch with an error: the engine
\* is never invoked, the batch never gets past its first file, and no file is
\* renamed, moved or overwritten.
C14_UnknownCodecAborts ==
    (Replace /\ opts.video_codec \notin Encoders) =>
        /\ engineLog = {}
        /\ pc \notin {"engine", "verify", "rename", "move"}
        /\ j = 1
        /\ pc = "done" => (opts.check_only \/ convertable = <<>>)
        /\ fs = fs0

\* a batch of two files to convert was aborted at the first, codec unknown
C14_Witness ==
    /\ Replace /\ opts.video_codec \notin Encoders
    /\ pc = "aborted"
    /\ Len(convertable) = 2
    /\ ~opts.dry_run

\* C15: when a replace-in-place batch has ended, the temporary output file
\* does not exist, however the files of the batch ended.
C15_TempFileRemoved ==
    (Replace /\ pc \in {"done", "aborted"}) => fs[TempFile] = Absent

\* C20: no partially written file is ever at a final destination path (an
\* output path of the sort workflow, a path of the source folder), and while
\* a file is being committed its complete content, original or converted, is
\* at its path or at its .mkv name.
C20_NoPartialAtDestination ==
    /\ \A p \in AllPaths \ {TempFile} : fs[p].q # "partial"
    /\ (Replace /\ pc \in {"rename", "move"}) =>
          \/ fs[video_file] = inp[video_file]
          \/ fs[WithSuffix(video_file, ".mkv")]
                \in {inp[video_file], out[video_file]}

\* C21: in the sort workflow no two source files of the convert-map have the
\* same destination path.
C21_ConvertMapInjective ==
    ~Replace =>
        \A k \in 1..Len(outputs), m \in 1..Len(outputs) :
            k # m => outputs[k] # outputs[m]

\* C22: the commit of a file leaves every other file as it is: the rename
\* changes no file that exists besides the file itself (a sibling at the
\* .mkv name included), and the move changes only the .mkv name and the
\* temporary path.
C22_CommitTouchesOwnPaths ==
    [][/\ CommitRename =>
             \A p \in AllPaths \ {video_file, TempFile} :
                 fs[p] # Absent => fs'[p] = fs[p]
       /\ CommitMove =>
             \A p \in AllPaths \ {video_file, WithSuffix(video_file, ".mkv"),
                                   TempFile} :
                 fs'[p] = fs[p]]_vars

\* C23: a dry run of the sort workflow creates no file and no directory.
C23_SortDryRunLeavesNoTrace ==
    (~Replace /\ opts.dry_run) => (fs = fs0 /\ dirs = {})

====
